---- MODULE Spec2Model ----
(***************************************************************************)
(* Model of the QOTD backend (src/main.py): the JSON-backed DataStore      *)
(* (stats and leaderboard), the two evaluation helpers, the output         *)
(* comparator and the submit / stats / leaderboard routes.                 *)
(*                                                                         *)
(* Python strings are sequences of one-character strings; None is the      *)
(* value None below, which is no such sequence.                            *)
(***************************************************************************)
EXTENDS Integers, Sequences, FiniteSets, Bags, TLC

VARIABLES questions, boot, store, disk, request, response, history,
          pc, frame, reader,
          expected, actual, result,
          source_code, full

vars == <<questions, boot, store, disk, request, response, history,
          pc, frame, reader, expected, actual, result, source_code, full>>

concVars == <<pc, frame, reader>>

cmpVars == <<expected, actual, result>>

asmVars == <<source_code, full>>

(***************************************************************************)
(* Bounds of the model.                                                    *)
(***************************************************************************)
MaxExpected == 2
MaxActual == 3
MaxCalls == 3
PreloadLen == 98
MaxThreadCalls == 1
MaxReads == 1
MaxSource == 4

(***************************************************************************)
(* Strings.                                                                *)
(***************************************************************************)
None == <<"<None>">>

Whitespace == {" ", "\n", "\t"}

Chars == {" ", "\n", "0", "5", "a", "A"}

RECURSIVE StringsUpTo(_)
StringsUpTo(n) ==
    IF n = 0 THEN {<<>>}
    ELSE LET shorter == StringsUpTo(n - 1)
         IN  shorter \cup {Append(s, c) : s \in {x \in shorter : Len(x) = n - 1}, c \in Chars}

RECURSIVE lstrip(_)
lstrip(s) ==
    IF s # <<>> /\ Head(s) \in Whitespace THEN lstrip(Tail(s)) ELSE s

RECURSIVE rstrip(_)
rstrip(s) ==
    IF s # <<>> /\ s[Len(s)] \in Whitespace THEN rstrip(SubSeq(s, 1, Len(s) - 1)) ELSE s

\* str.strip(): leading and trailing whitespace removed, nothing else.
strip(s) == rstrip(lstrip(s))

\* actual or "": None and the empty string both give "".
OrEmpty(a) == IF a = None \/ a = <<>> THEN <<>> ELSE a

compare_unstripped_actual(exp, act) == strip(exp) = OrEmpty(act)

_compare_outputs(exp, act) == strip(exp) = strip(OrEmpty(act))


(***************************************************************************)
(* Questions.  A stored question is a dict whose test cases are dicts;     *)
(* Question(q) validates it into a model whose test cases are TestCase   *)
(* models, and q.dict() turns a model back into nested dicts.              *)
(***************************************************************************)
TestCaseDict(inp, exp) == [kind |-> "dict", input |-> inp, expected_output |-> exp]

SampleQuestions ==
    [id \in {"q1", "q2"} |->
        IF id = "q1"
        THEN [id |-> "q1",
              test_cases |-> << TestCaseDict(<<"2", " ", "3">>, <<"5">>),
                                TestCaseDict(<<"1", "0", " ", "5">>, <<"1", "5">>) >>]
        ELSE [id |-> "q2",
              test_cases |-> << TestCaseDict(<<"h", "e", "l", "l", "o">>, <<"o", "l", "l", "e", "h">>),
                                TestCaseDict(<<"a", "b", "c">>, <<"c", "b", "a">>) >>]]

\* Bodies a client can post to add_question: test_cases defaults to [].
NewQuestions ==
    { [id |-> "q3", test_cases |-> <<>>],
      [id |-> "q3", test_cases |-> << TestCaseDict(None, <<"5">>) >>] }

\* Question(q): the test_cases field is List[TestCase], so every element
\* is validated into a TestCase model.
Question(q) ==
    [q EXCEPT !.test_cases = [i \in DOMAIN q.test_cases |-> [q.test_cases[i] EXCEPT !.kind = "TestCase"]]]

\* q.dict(): nested models become dicts again.
QuestionDict(q) ==
    [q EXCEPT !.test_cases = [i \in DOMAIN q.test_cases |-> [q.test_cases[i] EXCEPT !.kind = "dict"]]]

\* tc["expected_output"] and tc.get("input") exist on a dict; a TestCase
\* model defines neither __getitem__ nor get.
Subscriptable(tc) == tc.kind = "dict"

HasGet(tc) == tc.kind = "dict"

(***************************************************************************)
(* The DataStore: stats per question id and the leaderboard.               *)
(***************************************************************************)
Capacity == 100

Users == {"u1", "u2"}

RecordIds == {"q1", "q3"}

Times == {1, 2}

ZeroStats == [attempts |-> 0, successes |-> 0, total_time_ms |-> 0]

EmptyStore == [stats |-> << >>, leaderboard |-> << >>]

Entry(user, q_id, correct, time_ms) ==
    [user |-> user, q_id |-> q_id, correct |-> correct, time_ms |-> time_ms]

\* key=lambda x: (not x["correct"], x["time_ms"]); False sorts before True.
SortKey(e) == << IF e.correct THEN 0 ELSE 1, e.time_ms >>

KeyLess(a, b) == a[1] < b[1] \/ (a[1] = b[1] /\ a[2] < b[2])

MinKey(keys) == CHOOSE k \in keys : \A o \in keys : o = k \/ KeyLess(k, o)

\* sorted(lb, key=...): a stable sort, i.e. for each key in ascending order
\* the entries with that key, in the order they had in lb.
RECURSIVE SortedBuckets(_, _)
SortedBuckets(lb, keys) ==
    IF keys = {} THEN << >>
    ELSE LET m == MinKey(keys)
             HasKey(e) == SortKey(e) = m
         IN  SelectSeq(lb, HasKey) \o SortedBuckets(lb, keys \ {m})

unsorted(lb) == lb

sorted(lb) == SortedBuckets(lb, {SortKey(lb[i]) : i \in DOMAIN lb})

\* lb[:n] for n >= 0
Untruncated(lb, n) == lb

Take(lb, n) == SubSeq(lb, 1, IF Len(lb) < n THEN Len(lb) ELSE n)

\* stats = store["stats"].setdefault(q_id, {...zero...})
SetDefault(stats, q_id) ==
    IF q_id \in DOMAIN stats THEN stats ELSE stats @@ (q_id :> ZeroStats)

SuccessesOnlyBump(rec, correct, time_ms) ==
    [attempts |-> rec.attempts,
     successes |-> rec.successes + 1,
     total_time_ms |-> rec.total_time_ms + time_ms]

AlwaysSuccessBump(rec, correct, time_ms) ==
    [attempts |-> rec.attempts + 1,
     successes |-> rec.successes + 1,
     total_time_ms |-> rec.total_time_ms + time_ms]

Bump(rec, correct, time_ms) ==
    [attempts |-> rec.attempts + 1,
     successes |-> IF correct THEN rec.successes + 1 ELSE rec.successes,
     total_time_ms |-> rec.total_time_ms + time_ms]

\* DataStore.update_stats as one sequential call (the in-memory store after it).
UpdateStats(st, q_id, user, correct, time_ms) ==
    LET stats0 == SetDefault(st.stats, q_id)
        stats1 == [stats0 EXCEPT ![q_id] = Bump(@, correct, time_ms)]
        lb1 == Append(st.leaderboard, Entry(user, q_id, correct, time_ms))
    IN  [stats |-> stats1, leaderboard |-> Take(sorted(lb1), Capacity)]

\* DataStore.get_stats
AverageUnguarded(s) == [num |-> s.total_time_ms, den |-> s.attempts]

StoreAfterSetDefault(st, q_id) == [st EXCEPT !.stats = SetDefault(@, q_id)]

\* s = self.store["stats"].get(q_id, {...}): dict.get inserts nothing, and
\* get_stats neither assigns to the store nor saves it
StoreAfterGet(st, q_id) == st

Average(s) == IF s.attempts # 0 THEN [num |-> s.total_time_ms, den |-> s.attempts]
                                ELSE [num |-> 0, den |-> 1]

GetStats(st, q_id) ==
    LET s == IF q_id \in DOMAIN st.stats THEN st.stats[q_id] ELSE ZeroStats
    IN  [attempts |-> s.attempts, successes |-> s.successes, average_time_ms |-> Average(s)]

\* DataStore.get_leaderboard
GetLeaderboard(st, top) == Take(st.leaderboard, top)

(***************************************************************************)
(* A store file left by an earlier run: the store after PreloadLen         *)
(* update_stats calls (save_store writes it, _load reads it back).         *)
(***************************************************************************)
PreloadCall(i) ==
    [q_id |-> "q1", user |-> IF i % 2 = 0 THEN "u1" ELSE "u2",
     correct |-> (i % 3 # 0), time_ms |-> 1 + (i % 2)]

\* The store after the calls n..PreloadLen, made one after another on st.
\* (Len(st.leaderboard) is never negative: the test makes TLC evaluate st
\* before the next call instead of nesting PreloadLen unevaluated calls.)
RECURSIVE Replay(_, _)
Replay(st, n) ==
    IF n > PreloadLen \/ Len(st.leaderboard) < 0 THEN st
    ELSE LET c == PreloadCall(n)
         IN  Replay(UpdateStats(st, c.q_id, c.user, c.correct, c.time_ms), n + 1)

PreloadedStore == Replay(EmptyStore, 1)


(***************************************************************************)
(* Evaluation helpers.  An evaluation either returns a SubmissionResponse  *)
(* (raised = "none") or propagates a Python exception (raised = its type). *)
(***************************************************************************)
Sentinel == <<"_", "_", "E", "R", "R", "O", "R", "_", "_", ":">>

StartsWith(s, prefix) ==
    Len(s) >= Len(prefix) /\ SubSeq(s, 1, Len(prefix)) = prefix

TestResult(inp, exp, act, passed, error) ==
    [input |-> inp, expected_output |-> exp, actual_output |-> act,
     passed |-> passed, error |-> error]

Raised(exc) == [raised |-> exc]

AnyPassSubmissionResponse(n, passed, results, time_ms) ==
    [raised |-> "none", correct |-> (passed > 0), passed_count |-> passed,
     total |-> n, results |-> results, time_ms |-> time_ms, message |-> None]

SubmissionResponse(n, passed, results, time_ms) ==
    [raised |-> "none", correct |-> (passed = n), passed_count |-> passed,
     total |-> n, results |-> results, time_ms |-> time_ms, message |-> None]

\* the for loop of evaluate_output_submission from test case i on
RECURSIVE OutputLoop(_, _, _, _, _)
OutputLoop(tcs, answer, i, results, passed) ==
    IF i > Len(tcs) THEN [raised |-> "none", results |-> results, passed |-> passed]
    ELSE LET tc == tcs[i]
         IN  IF ~Subscriptable(tc) THEN Raised("TypeError")
             ELSE LET ok == _compare_outputs(tc.expected_output, answer)
                      res == TestResult(tc.input, tc.expected_output, answer, ok, None)
                  IN  OutputLoop(tcs, answer, i + 1, Append(results, res),
                                 IF ok THEN passed + 1 ELSE passed)

evaluate_output_submission(q, answer, time_ms) ==
    LET r == OutputLoop(q.test_cases, answer, 1, << >>, 0)
    IN  IF r.raised # "none" THEN r
        ELSE SubmissionResponse(Len(q.test_cases), r.passed, r.results, time_ms)

\* What one subprocess.run of the candidate can do.
RunOutcomes ==
    { [kind |-> "timeout"],
      [kind |-> "exception", msg |-> <<"o", "s">>],
      [kind |-> "done", stdout |-> <<"5">>, stderr |-> << >>],
      [kind |-> "done", stdout |-> <<"1", "5", "\n">>, stderr |-> <<"w">>],
      [kind |-> "done", stdout |-> << >>, stderr |-> << >>],
      [kind |-> "done", stdout |-> Sentinel \o <<"x">>, stderr |-> << >>] }

\* the body of the try block for one test case whose run gives outcome o
RunResult(tc, o) ==
    IF o.kind = "timeout"
    THEN TestResult(tc.input, tc.expected_output, None, FALSE, <<"t", "i", "m", "e", "o", "u", "t">>)
    ELSE IF o.kind = "exception"
    THEN TestResult(tc.input, tc.expected_output, None, FALSE, o.msg)
    ELSE IF StartsWith(o.stdout, Sentinel)
    THEN TestResult(tc.input, tc.expected_output, None, FALSE, o.stdout)
    ELSE TestResult(tc.input, tc.expected_output, o.stdout,
                    _compare_outputs(tc.expected_output, o.stdout),
                    IF o.stderr # << >> THEN o.stderr ELSE None)

\* the for loop of evaluate_python_submission from test case i on; outs[i] is
\* the outcome of the i-th subprocess.run.  tc.get("input") is evaluated
\* before the run, and again in the exception handler.  ran lists the test
\* cases for which subprocess.run was started, in the order of the starts.
RECURSIVE PythonLoop(_, _, _, _, _, _)
PythonLoop(tcs, outs, i, results, passed, ran) ==
    IF i > Len(tcs)
    THEN [raised |-> "none", results |-> results, passed |-> passed, ran |-> ran]
    ELSE LET tc == tcs[i]
         IN  IF ~HasGet(tc) THEN [raised |-> "AttributeError", ran |-> ran]
             ELSE LET res == RunResult(tc, outs[i])
                  IN  PythonLoop(tcs, outs, i + 1, Append(results, res),
                                 IF res.passed THEN passed + 1 ELSE passed,
                                 Append(ran, i))

evaluate_python_submission(q, source, outs, time_ms) ==
    LET r == PythonLoop(q.test_cases, outs, 1, << >>, 0, << >>)
    IN  IF r.raised # "none" THEN Raised(r.raised)
        ELSE SubmissionResponse(Len(q.test_cases), r.passed, r.results, time_ms)

\* the subprocess.run calls evaluate_python_submission makes (line 219)
subprocess_runs(q, outs) == PythonLoop(q.test_cases, outs, 1, << >>, 0, << >>).ran


(***************************************************************************)
(* State shared by the specifications.                                     *)
(*   questions  DataStore.questions                                        *)
(*   boot       the store read from store.json at construction             *)
(*   store      DataStore.store (in memory)                                *)
(*   disk       the content of store.json                                  *)
(*   request    the call being served, response what it returned           *)
(*   history    the bag of update_stats calls that have returned           *)
(***************************************************************************)
Threads == {"t1", "t2"}

Idle == [t \in Threads |-> "idle"]

NoFrame == [q_id |-> "q1", user |-> "u1", correct |-> FALSE, time_ms |-> 0,
            tmp |-> 0, snapshot |-> << >>, calls |-> 0]

NoReader == [pc |-> "idle", q_id |-> "q1", live |-> FALSE, s |-> ZeroStats,
             avg |-> Average(ZeroStats), attempts |-> 0, reads |-> 0]

NoRequest == [op |-> "none"]

NoResponse == [status |-> 0, body |-> None]

Call(q_id, user, correct, time_ms) ==
    [q_id |-> q_id, user |-> user, correct |-> correct, time_ms |-> time_ms]

ConcIdle == pc = Idle /\ frame = [t \in Threads |-> NoFrame] /\ reader = NoReader

CmpIdle == expected = << >> /\ actual = None /\ result = FALSE

AsmIdle == source_code = << >> /\ full = None

\* DataStore.__init__: _ensure_files writes the sample questions and an empty
\* store when the files are missing; _load reads whatever the files hold.
Init ==
    /\ questions = SampleQuestions
    /\ store \in {EmptyStore, PreloadedStore}
    /\ boot = store
    /\ disk = store
    /\ request = NoRequest
    /\ response = NoResponse
    /\ history = EmptyBag
    /\ ConcIdle
    /\ CmpIdle
    /\ AsmIdle

(***************************************************************************)
(* DataStore methods, called one at a time.                                *)
(***************************************************************************)
update_stats(q_id, user, correct, time_ms) ==
    /\ BagCardinality(history) < MaxCalls
    /\ store' = UpdateStats(store, q_id, user, correct, time_ms)
    /\ disk' = store'
    /\ history' = history (+) SetToBag({Call(q_id, user, correct, time_ms)})
    /\ request' = [op |-> "update_stats", q_id |-> q_id, user |-> user,
                   correct |-> correct, time_ms |-> time_ms]
    /\ response' = NoResponse
    /\ UNCHANGED <<questions, boot, concVars, cmpVars, asmVars>>

get_stats(q_id) ==
    /\ request' = [op |-> "get_stats", q_id |-> q_id]
    /\ response' = [status |-> 200, body |-> GetStats(store, q_id)]
    /\ store' = StoreAfterGet(store, q_id)
    /\ UNCHANGED <<questions, boot, disk, history, concVars, cmpVars, asmVars>>

Tops == {2, 200}

get_leaderboard(top) ==
    /\ request' = [op |-> "get_leaderboard", top |-> top]
    /\ response' = [status |-> 200, body |-> GetLeaderboard(store, top)]
    /\ UNCHANGED <<questions, boot, store, disk, history, concVars, cmpVars, asmVars>>

StatIds == {"q1", "q3", "zz"}

Next ==
    \/ \E q_id \in RecordIds, user \in Users, correct \in BOOLEAN, time_ms \in Times :
          update_stats(q_id, user, correct, time_ms)
    \/ \E q_id \in StatIds : get_stats(q_id)
    \/ \E top \in Tops : get_leaderboard(top)

Spec == Init /\ [][Next]_vars

(***************************************************************************)
(* The routes.                                                             *)
(***************************************************************************)
Languages == {"output", "python", "java"}

Answers == { <<"5">>, <<"1", "5">> }

SubmitIds == {"q1", "q3", "zz"}

Sources == { <<"s">> }

\* one run outcome per test case of the stored question (none when unknown)
OutcomesFor(q_id) ==
    IF q_id \in DOMAIN questions
    THEN [1..Len(questions[q_id].test_cases) -> RunOutcomes]
    ELSE { << >> }

NotFound == [status |-> 404, body |-> None]

EvaluateElseOutput(q, language, answer, outs, time_ms) ==
    IF language = "python"
    THEN evaluate_python_submission(q, answer, outs, time_ms)
    ELSE evaluate_output_submission(Question(QuestionDict(q)), answer, time_ms)

\* the evaluation branch of submit: the verdict, a raised exception, or
\* "unsupported" when the language is neither output nor python
Evaluate(q, language, answer, outs, time_ms) ==
    IF language = "output"
    THEN evaluate_output_submission(Question(QuestionDict(q)), answer, time_ms)
    ELSE IF language = "python"
    THEN evaluate_python_submission(q, answer, outs, time_ms)
    ELSE Raised("HTTPException")

\* the candidate runs the evaluation branch of submit starts
Executed(q, language, outs) ==
    IF language = "python" THEN subprocess_runs(q, outs) ELSE << >>

\* request.runs is what the submitted candidate does when it is run on each
\* test case; response.ran is the list of runs the request started.
submit(user, q_id, language, answer, outs, time_ms) ==
    /\ BagCardinality(history) < MaxCalls
    /\ request' = [op |-> "submit", user |-> user, q_id |-> q_id,
                   language |-> language, answer |-> answer, runs |-> outs]
    /\ IF q_id \notin DOMAIN questions
       THEN /\ response' = [status |-> 404, body |-> None, ran |-> << >>]
            /\ UNCHANGED <<store, disk, history>>
       ELSE LET q == Question(questions[q_id])
                res == Evaluate(q, language, answer, outs, time_ms)
                ran == Executed(q, language, outs)
            IN  IF res.raised = "HTTPException"
                THEN /\ response' = [status |-> 400, body |-> None, ran |-> ran]
                     /\ UNCHANGED <<store, disk, history>>
                ELSE IF res.raised # "none"
                THEN /\ response' = [status |-> 500, body |-> res, ran |-> ran]
                     /\ UNCHANGED <<store, disk, history>>
                ELSE /\ store' = UpdateStats(store, q_id, user, res.correct, res.time_ms)
                     /\ disk' = store'
                     /\ history' = history (+) SetToBag({Call(q_id, user, res.correct, res.time_ms)})
                     /\ response' = [status |-> 200, ran |-> ran,
                                     body |-> [res EXCEPT !.message = <<"Submission evaluated">>]]
    /\ UNCHANGED <<questions, boot, concVars, cmpVars, asmVars>>

add_question(q) ==
    /\ request' = [op |-> "add_question", q |-> q]
    /\ IF q.id \in DOMAIN questions
       THEN /\ response' = [status |-> 400, body |-> None]
            /\ UNCHANGED questions
       ELSE /\ questions' = questions @@ (q.id :> q)
            /\ response' = [status |-> 200, body |-> None]
    /\ UNCHANGED <<boot, store, disk, history, concVars, cmpVars, asmVars>>

route_get_stats(q_id) ==
    /\ request' = [op |-> "get_stats", q_id |-> q_id]
    /\ response' = IF q_id \notin DOMAIN questions THEN NotFound
                   ELSE [status |-> 200, body |-> GetStats(store, q_id)]
    /\ UNCHANGED <<questions, boot, store, disk, history, concVars, cmpVars, asmVars>>

route_leaderboard(top) ==
    /\ request' = [op |-> "leaderboard", top |-> top]
    /\ response' = [status |-> 200, body |-> GetLeaderboard(store, top)]
    /\ UNCHANGED <<questions, boot, store, disk, history, concVars, cmpVars, asmVars>>

NextApi ==
    \/ \E user \in Users, q_id \in SubmitIds, language \in Languages \ {"python"},
          answer \in Answers, time_ms \in Times :
          submit(user, q_id, language, answer, << >>, time_ms)
    \/ \E user \in Users, q_id \in SubmitIds, source \in Sources, time_ms \in Times :
          \E outs \in OutcomesFor(q_id) :
             submit(user, q_id, "python", source, outs, time_ms)
    \/ \E q \in NewQuestions : add_question(q)
    \/ \E q_id \in SubmitIds : route_get_stats(q_id)
    \/ \E top \in Tops : route_leaderboard(top)

SpecApi == Init /\ [][NextApi]_vars


(***************************************************************************)
(* The comparator on its own: every pair of a bounded expected string and  *)
(* a bounded actual string (or None) is compared once.                     *)
(***************************************************************************)
InitCmp ==
    /\ questions = SampleQuestions
    /\ store = EmptyStore
    /\ boot = store
    /\ disk = store
    /\ request = NoRequest
    /\ response = NoResponse
    /\ history = EmptyBag
    /\ ConcIdle
    /\ expected \in StringsUpTo(MaxExpected)
    /\ actual \in StringsUpTo(MaxActual) \cup {None}
    /\ result = FALSE
    /\ AsmIdle

compare ==
    /\ request = NoRequest
    /\ result' = _compare_outputs(expected, actual)
    /\ request' = [op |-> "compare"]
    /\ UNCHANGED <<questions, boot, store, disk, response, history, concVars, expected, actual, asmVars>>

NextCmp == compare

SpecCmp == InitCmp /\ [][NextCmp]_vars

(***************************************************************************)
(* The program evaluate_python_submission hands to "python -c" (line 218)  *)
(* and where the Python tokenizer ends the literal that holds the source.  *)
(***************************************************************************)
\* the text of wrapper (lines 193-214), one tuple per source line
wrapper ==
    <<"i", "m", "p", "o", "r", "t", " ", "s", "y", "s", "\n">> \o
    <<"d", "e", "f", " ", "_", "r", "u", "n", "(", ")", ":", "\n">> \o
    <<" ", " ", " ", " ", "i", "m", "p", "o", "r", "t", " ", "s", "y", "s",
       "\n">> \o
    <<" ", " ", " ", " ", "d", "a", "t", "a", " ", "=", " ", "s", "y", "s", ".",
       "s", "t", "d", "i", "n", ".", "r", "e", "a", "d", "(", ")", "\n">> \o
    <<" ", " ", " ", " ", "t", "r", "y", ":", "\n">> \o
    <<" ", " ", " ", " ", " ", " ", " ", " ", "#", " ", "t", "h", "e", " ", "u",
       "s", "e", "r", " ", "c", "o", "d", "e", " ", "c", "a", "n", " ", "d",
       "e", "f", "i", "n", "e", " ", "s", "o", "l", "v", "e", "(", "i", "n",
       "p", "u", "t", "_", "s", "t", "r", ")", " ", "t", "o", " ", "r", "e",
       "t", "u", "r", "n", " ", "a", "n", "s", "w", "e", "r", " ", "s", "t",
       "r", "i", "n", "g", "\n">> \o
    <<" ", " ", " ", " ", " ", " ", " ", " ", "g", "l", "o", "b", "a", "l", "s",
       "_", "d", "i", "c", "t", " ", "=", " ", "{", "}", "\n">> \o
    <<" ", " ", " ", " ", " ", " ", " ", " ", "l", "o", "c", "a", "l", "s", "_",
       "d", "i", "c", "t", " ", "=", " ", "{", "}", "\n">> \o
    <<" ", " ", " ", " ", " ", " ", " ", " ", "e", "x", "e", "c", "(", "s", "o",
       "u", "r", "c", "e", "_", "c", "o", "d", "e", ",", " ", "g", "l", "o",
       "b", "a", "l", "s", "_", "d", "i", "c", "t", ",", " ", "l", "o", "c",
       "a", "l", "s", "_", "d", "i", "c", "t", ")", "\n">> \o
    <<" ", " ", " ", " ", " ", " ", " ", " ", "i", "f", " ", "'", "s", "o", "l",
       "v", "e", "'", " ", "i", "n", " ", "l", "o", "c", "a", "l", "s", "_",
       "d", "i", "c", "t", ":", "\n">> \o
    <<" ", " ", " ", " ", " ", " ", " ", " ", " ", " ", " ", " ", "o", "u", "t",
       " ", "=", " ", "l", "o", "c", "a", "l", "s", "_", "d", "i", "c", "t",
       "[", "'", "s", "o", "l", "v", "e", "'", "]", "(", "d", "a", "t", "a",
       ".", "s", "t", "r", "i", "p", "(", ")", ")", "\n">> \o
    <<" ", " ", " ", " ", " ", " ", " ", " ", "e", "l", "i", "f", " ", "'", "s",
       "o", "l", "v", "e", "'", " ", "i", "n", " ", "g", "l", "o", "b", "a",
       "l", "s", "_", "d", "i", "c", "t", ":", "\n">> \o
    <<" ", " ", " ", " ", " ", " ", " ", " ", " ", " ", " ", " ", "o", "u", "t",
       " ", "=", " ", "g", "l", "o", "b", "a", "l", "s", "_", "d", "i", "c",
       "t", "[", "'", "s", "o", "l", "v", "e", "'", "]", "(", "d", "a", "t",
       "a", ".", "s", "t", "r", "i", "p", "(", ")", ")", "\n">> \o
    <<" ", " ", " ", " ", " ", " ", " ", " ", "e", "l", "s", "e", ":", "\n">> \o
    <<" ", " ", " ", " ", " ", " ", " ", " ", " ", " ", " ", " ", "o", "u", "t",
       " ", "=", " ", "'", "'", "\n">> \o
    <<" ", " ", " ", " ", " ", " ", " ", " ", "p", "r", "i", "n", "t", "(", "o",
       "u", "t", ",", " ", "e", "n", "d", "=", "'", "'", ")", "\n">> \o
    <<" ", " ", " ", " ", "e", "x", "c", "e", "p", "t", " ", "E", "x", "c", "e",
       "p", "t", "i", "o", "n", " ", "a", "s", " ", "e", ":", "\n">> \o
    <<" ", " ", " ", " ", " ", " ", " ", " ", "p", "r", "i", "n", "t", "(", "'",
       "_", "_", "E", "R", "R", "O", "R", "_", "_", ":", "'", " ", "+", " ",
       "s", "t", "r", "(", "e", ")", ",", " ", "e", "n", "d", "=", "'", "'",
       ")", "\n">> \o
    <<"i", "f", " ", "_", "_", "n", "a", "m", "e", "_", "_", " ", "=", "=", " ",
       "'", "_", "_", "m", "a", "i", "n", "_", "_", "'", ":", "\n">> \o
    <<" ", " ", " ", " ", "_", "r", "u", "n", "(", ")", "\n">>

Quote == "'"

Backslash == "\\"

SourceChars == {Quote, Backslash, "p"}

SourcesUpTo(n) == UNION {[1..k -> SourceChars] : k \in 0..n}

\* the text before the interpolated source: source_code = and three quotes
Opening ==
    <<"s", "o", "u", "r", "c", "e", "_", "c", "o", "d", "e", " ", "=", " ",
      Quote, Quote, Quote>>

\* the text after it: three quotes and a newline
Closing == <<Quote, Quote, Quote, "\n">>

\* full = f"source_code = (three quotes){source}(three quotes)\n" + wrapper
Assemble(src) == Opening \o src \o Closing \o wrapper

\* the number of backslashes that stand directly before position k of text,
\* counted back to position first
BackslashesBefore(text, first, k) ==
    LET stops == {j \in first..(k - 1) : text[j] # Backslash}
        last == IF stops = {} THEN first - 1
                ELSE CHOOSE j \in stops : \A o \in stops : o <= j
    IN  k - 1 - last

\* The tokenizer reads a triple-quoted literal from position first on: a
\* backslash takes the character after it with it, and the first three
\* quotes in a row not so taken end the literal.  The position of those
\* quotes, or 0 when the text has none (an unterminated literal).
LiteralEnd(text, first) ==
    LET ends == {k \in first..(Len(text) - 2) :
                    /\ text[k] = Quote /\ text[k + 1] = Quote /\ text[k + 2] = Quote
                    /\ BackslashesBefore(text, first, k) % 2 = 0}
    IN  IF ends = {} THEN 0 ELSE CHOOSE k \in ends : \A o \in ends : k <= o

InitAsm ==
    /\ questions = SampleQuestions
    /\ store = EmptyStore
    /\ boot = store
    /\ disk = store
    /\ request = NoRequest
    /\ response = NoResponse
    /\ history = EmptyBag
    /\ ConcIdle
    /\ CmpIdle
    /\ source_code \in SourcesUpTo(MaxSource)
    /\ full = None

assemble ==
    /\ request = NoRequest
    /\ full' = Assemble(source_code)
    /\ request' = [op |-> "assemble"]
    /\ UNCHANGED <<questions, boot, store, disk, response, history, concVars, cmpVars, source_code>>

NextAsm == assemble

SpecAsm == InitAsm /\ [][NextAsm]_vars

(***************************************************************************)
(* Properties of the sequential DataStore (specification Spec).            *)
(***************************************************************************)
StatsOf(st, q_id) == IF q_id \in DOMAIN st.stats THEN st.stats[q_id] ELSE ZeroStats

\* the sum of f over the finite set S
RECURSIVE SumOver(_, _)
SumOver(S, f) ==
    IF S = {} THEN 0
    ELSE LET x == CHOOSE y \in S : TRUE
         IN  f[x] + SumOver(S \ {x}, f)

CallsOf(q_id) == {c \in BagToSet(history) : c.q_id = q_id}

NumCalls(q_id) == SumOver(CallsOf(q_id), [c \in CallsOf(q_id) |-> CopiesIn(c, history)])

NumCorrect(q_id) ==
    SumOver(CallsOf(q_id), [c \in CallsOf(q_id) |-> IF c.correct THEN CopiesIn(c, history) ELSE 0])

SumTime(q_id) ==
    SumOver(CallsOf(q_id), [c \in CallsOf(q_id) |-> CopiesIn(c, history) * c.time_ms])

TotalAttempts(st) == SumOver(DOMAIN st.stats, [q \in DOMAIN st.stats |-> st.stats[q].attempts])

\* C4: after any sequence of record calls the leaderboard holds at most 100
\* entries, no incorrect entry stands before a correct one, and within the
\* correct entries and within the incorrect entries the elapsed times never
\* decrease.  (Stated on neighbours, which gives it for every pair.)
C4_LeaderboardBoundedSorted ==
    LET lb == store.leaderboard
    IN  /\ Len(lb) <= 100
        /\ \A i \in 1..(Len(lb) - 1) :
              /\ lb[i + 1].correct => lb[i].correct
              /\ (lb[i].correct = lb[i + 1].correct) => lb[i].time_ms <= lb[i + 1].time_ms

\* a record call on a full leaderboard: the board stays at 100 entries of both
\* kinds after more than 100 calls in total
C4_Witness ==
    /\ request.op = "update_stats"
    /\ Len(store.leaderboard) = 100
    /\ TotalAttempts(store) > 100
    /\ \E i, j \in DOMAIN store.leaderboard :
          store.leaderboard[i].correct /\ ~store.leaderboard[j].correct

C5_RecordStep ==
    request'.op = "update_stats" =>
        LET q == request'.q_id
            old == StatsOf(store, q)
        IN  /\ DOMAIN store'.stats = DOMAIN store.stats \cup {q}
            /\ store'.stats[q].attempts = old.attempts + 1
            /\ store'.stats[q].successes = old.successes + (IF request'.correct THEN 1 ELSE 0)
            /\ (store'.stats[q].successes = old.successes + 1) <=> request'.correct
            /\ store'.stats[q].total_time_ms = old.total_time_ms + request'.time_ms
            /\ (q \notin DOMAIN store.stats => old = [attempts |-> 0, successes |-> 0, total_time_ms |-> 0])
            /\ \A o \in DOMAIN store.stats \ {q} : store'.stats[o] = store.stats[o]

C5_Counts ==
    \A q \in RecordIds :
        LET s == StatsOf(store, q)
            b == StatsOf(boot, q)
        IN  /\ s.attempts = b.attempts + NumCalls(q)
            /\ s.successes = b.successes + NumCorrect(q)
            /\ s.total_time_ms = b.total_time_ms + SumTime(q)
            /\ (q \notin DOMAIN boot.stats /\ \A c \in CallsOf(q) : c.correct)
                  => s.successes = s.attempts

\* C5: every record call for a question id adds 1 to its attempts, 1 to its
\* successes exactly when the verdict is correct and the elapsed time to its
\* cumulative time, starting from zeroed counters when the record is new, and
\* changes no other question's record; so the counters are the sums over the
\* calls made, and N correct calls on a fresh question give N and N.
C5_RecordEffect == [][C5_RecordStep]_vars /\ []C5_Counts

\* two correct record calls on the fresh question q3 and one for another id
C5_Witness ==
    /\ request.op = "update_stats"
    /\ "q3" \notin DOMAIN boot.stats
    /\ "q3" \in DOMAIN store.stats
    /\ store.stats["q3"].attempts = 2
    /\ store.stats["q3"].successes = 2
    /\ "q1" \in DOMAIN store.stats
    /\ store.stats["q1"].successes < store.stats["q1"].attempts

C6_Step ==
    \A q \in DOMAIN store.stats :
        /\ q \in DOMAIN store'.stats
        /\ store'.stats[q].attempts >= store.stats[q].attempts
        /\ store'.stats[q].successes >= store.stats[q].successes

C6_Bounded == \A q \in DOMAIN store.stats : store.stats[q].successes <= store.stats[q].attempts

\* C6: for every question id successes never exceeds attempts, neither
\* counter ever decreases, and a stats record is never removed.
C6_Monotonic == []C6_Bounded /\ [][C6_Step]_vars

\* two record calls for one question, the last one correct, after which all
\* of its attempts are successes
C6_Witness ==
    /\ request.op = "update_stats"
    /\ request.correct
    /\ \E q \in DOMAIN store.stats :
          /\ store.stats[q].attempts = StatsOf(boot, q).attempts + 2
          /\ store.stats[q].successes = store.stats[q].attempts


(***************************************************************************)
(* Properties of the comparator (specification SpecCmp).                   *)
(***************************************************************************)
\* c is s without its leading and trailing whitespace
IsTrimOf(c, s) ==
    \E i \in 0..Len(s), j \in 0..Len(s) :
        /\ i <= j
        /\ c = SubSeq(s, i + 1, j)
        /\ \A k \in 1..i : s[k] \in Whitespace
        /\ \A k \in (j + 1)..Len(s) : s[k] \in Whitespace
        /\ c # << >> => (c[1] \notin Whitespace /\ c[Len(c)] \notin Whitespace)

TrimEqual(e, a) ==
    LET act == IF a = None THEN << >> ELSE a
    IN  \E i \in 0..Len(e), j \in 0..Len(e) :
           i <= j /\ IsTrimOf(SubSeq(e, i + 1, j), e) /\ IsTrimOf(SubSeq(e, i + 1, j), act)

\* C10: compare always returns a boolean, and returns true exactly when the
\* expected and the actual string (None counting as the empty string) are the
\* same once leading and trailing whitespace is removed from both.
C10_CompareTrimsOnly ==
    request.op = "compare" => (result \in BOOLEAN /\ (result <=> TrimEqual(expected, actual)))

\* compare("5", " 5 ") has been computed and is true
C10_Witness ==
    /\ request.op = "compare"
    /\ expected = <<"5">>
    /\ actual = <<" ", "5", " ">>
    /\ result

(***************************************************************************)
(* Properties of the routes (specification SpecApi).                       *)
(***************************************************************************)
IsEvaluated ==
    /\ request.op = "submit"
    /\ request.q_id \in DOMAIN questions
    /\ request.language \in {"output", "python"}

\* C1: a submission to a known question in a supported mode returns a verdict
\* with exactly one TestResult per test case of the question, in the
\* question's order, and with total equal to the number of test cases.
C1_OneResultPerTestCase ==
    IsEvaluated =>
        /\ response.status = 200
        /\ LET tcs == questions[request.q_id].test_cases
               v == response.body
           IN  /\ Len(v.results) = Len(tcs)
               /\ v.total = Len(tcs)
               /\ \A i \in DOMAIN tcs :
                     /\ v.results[i].input = tcs[i].input
                     /\ v.results[i].expected_output = tcs[i].expected_output

\* C7: in every verdict passed_count is the number of its TestResults that
\* passed, and correct is true exactly when passed_count equals total.
C7_VerdictCounts ==
    (request.op = "submit" /\ response.status = 200) =>
        LET v == response.body
        IN  /\ v.passed_count = Cardinality({i \in DOMAIN v.results : v.results[i].passed})
            /\ v.correct <=> (v.passed_count = v.total)

\* a submission has been evaluated to a verdict
C7_Witness ==
    /\ request.op = "submit"
    /\ response.status = 200
    /\ response.body.raised = "none"
    /\ response.body.passed_count = response.body.total
    /\ response.body.correct

IsFaultError(e) ==
    e # None /\ (e = <<"t", "i", "m", "e", "o", "u", "t">> \/ StartsWith(e, Sentinel))

\* C8: an evaluated submission gives TestResults in which passed implies an
\* actual output that is present and trim-equal to the expected output, and
\* in which a timeout, sentinel fault or execution exception gives a result
\* with passed false and no actual output.
C8_TestResults ==
    IsEvaluated =>
        /\ response.status = 200
        /\ \A i \in DOMAIN response.body.results :
              LET r == response.body.results[i]
              IN  /\ r.passed => (r.actual_output # None
                                  /\ TrimEqual(r.expected_output, r.actual_output))
                  /\ IsFaultError(r.error) => (~r.passed /\ r.actual_output = None)

\* C9: in literal-output mode every TestResult carries the answer as its
\* actual output and passed = compare(expected, answer); the answer "5" on
\* the sample question q1 (expected "5" and "15") passes one test of two.
C9_LiteralOutput ==
    (request.op = "submit" /\ request.language = "output" /\ request.q_id \in DOMAIN questions) =>
        /\ response.status = 200
        /\ LET tcs == questions[request.q_id].test_cases
               v == response.body
           IN  /\ DOMAIN v.results = DOMAIN tcs
               /\ \A i \in DOMAIN tcs :
                     /\ v.results[i].actual_output = request.answer
                     /\ v.results[i].passed = TrimEqual(tcs[i].expected_output, request.answer)
               /\ (request.q_id = "q1" /\ request.answer = <<"5">>)
                     => (v.passed_count = 1 /\ ~v.correct)


(***************************************************************************)
(* Concurrent requests.  The routes are plain def functions, so the server *)
(* runs each request on a worker thread; update_stats takes no lock.  A    *)
(* thread executes update_stats one load or store at a time, and any other *)
(* thread may run between two of its steps.                                *)
(***************************************************************************)
UserOf(t) == IF t = "t1" THEN "u1" ELSE "u2"

ConcTimes == {1}

At(t, label) == pc[t] = label

Goto(t, label) == pc' = [pc EXCEPT ![t] = label]

\* a worker thread enters update_stats(q_id, user, correct, time_ms)
call_update_stats(t, q_id, correct, time_ms) ==
    /\ At(t, "idle")
    /\ frame[t].calls < MaxThreadCalls
    /\ frame' = [frame EXCEPT ![t] = [q_id |-> q_id, user |-> UserOf(t), correct |-> correct,
                                      time_ms |-> time_ms, tmp |-> 0, snapshot |-> << >>,
                                      calls |-> @.calls + 1]]
    /\ Goto(t, "L145")
    /\ UNCHANGED <<questions, boot, store, disk, request, response, history, reader, cmpVars, asmVars>>

\* line 145: stats = ...setdefault(q_id, {zeroed})
L145(t) ==
    /\ At(t, "L145")
    /\ store' = [store EXCEPT !.stats = SetDefault(@, frame[t].q_id)]
    /\ Goto(t, "L146_load")
    /\ UNCHANGED <<questions, boot, disk, request, response, history, frame, reader, cmpVars, asmVars>>

\* stats[field] += ... : the load of the current value
LoadField(t, label, field, next) ==
    /\ At(t, label)
    /\ frame' = [frame EXCEPT ![t].tmp = store.stats[frame[t].q_id][field]]
    /\ Goto(t, next)
    /\ UNCHANGED <<questions, boot, store, disk, request, response, history, reader, cmpVars, asmVars>>

\* stats[field] += amount : the store of the loaded value plus amount
StoreField(t, label, field, amount, next) ==
    /\ At(t, label)
    /\ store' = [store EXCEPT !.stats[frame[t].q_id][field] = frame[t].tmp + amount]
    /\ frame' = [frame EXCEPT ![t].tmp = 0]
    /\ Goto(t, next)
    /\ UNCHANGED <<questions, boot, disk, request, response, history, reader, cmpVars, asmVars>>

L146_load(t) == LoadField(t, "L146_load", "attempts", "L146_store")

L146_store(t) ==
    StoreField(t, "L146_store", "attempts", 1,
               IF frame[t].correct THEN "L148_load" ELSE "L149_load")

L148_load(t) == LoadField(t, "L148_load", "successes", "L148_store")

L148_store(t) == StoreField(t, "L148_store", "successes", 1, "L149_load")

L149_load(t) == LoadField(t, "L149_load", "total_time_ms", "L149_store")

L149_store(t) == StoreField(t, "L149_store", "total_time_ms", frame[t].time_ms, "L151")

\* line 151: append the entry to the list the store holds
L151(t) ==
    /\ At(t, "L151")
    /\ store' = [store EXCEPT !.leaderboard =
                    Append(@, Entry(frame[t].user, frame[t].q_id, frame[t].correct, frame[t].time_ms))]
    /\ Goto(t, "L153_sort")
    /\ UNCHANGED <<questions, boot, disk, request, response, history, frame, reader, cmpVars, asmVars>>

\* line 153, right-hand side: sorted() copies the list it is given
L153_sort(t) ==
    /\ At(t, "L153_sort")
    /\ frame' = [frame EXCEPT ![t].snapshot = Take(sorted(store.leaderboard), Capacity)]
    /\ Goto(t, "L153_store")
    /\ UNCHANGED <<questions, boot, store, disk, request, response, history, reader, cmpVars, asmVars>>

\* line 153, assignment
L153_store(t) ==
    /\ At(t, "L153_store")
    /\ store' = [store EXCEPT !.leaderboard = frame[t].snapshot]
    /\ frame' = [frame EXCEPT ![t].snapshot = << >>]
    /\ Goto(t, "L154")
    /\ UNCHANGED <<questions, boot, disk, request, response, history, reader, cmpVars, asmVars>>

\* line 154: save_store, then the call returns
L154(t) ==
    /\ At(t, "L154")
    /\ disk' = store
    /\ history' = history (+) SetToBag({Call(frame[t].q_id, frame[t].user,
                                              frame[t].correct, frame[t].time_ms)})
    /\ Goto(t, "idle")
    /\ UNCHANGED <<questions, boot, store, request, response, frame, reader, cmpVars, asmVars>>

\* get_stats(q_id) on another thread.  Line 157 binds s to the record of the
\* store (or to a fresh zeroed dict), lines 158 and 159 read its fields.
L157(q_id) ==
    /\ reader.pc = "idle"
    /\ reader.reads < MaxReads
    /\ reader' = [reader EXCEPT !.pc = "L158", !.q_id = q_id, !.reads = @ + 1,
                                !.live = (q_id \in DOMAIN store.stats), !.s = ZeroStats]
    /\ UNCHANGED <<questions, boot, store, disk, request, response, history, pc, frame, cmpVars, asmVars>>

ReaderRecord == IF reader.live THEN store.stats[reader.q_id] ELSE reader.s

L158 ==
    /\ reader.pc = "L158"
    /\ reader' = [reader EXCEPT !.pc = "L159_attempts", !.avg = Average(ReaderRecord)]
    /\ UNCHANGED <<questions, boot, store, disk, request, response, history, pc, frame, cmpVars, asmVars>>

L159_attempts ==
    /\ reader.pc = "L159_attempts"
    /\ reader' = [reader EXCEPT !.pc = "L159_successes", !.attempts = ReaderRecord.attempts]
    /\ UNCHANGED <<questions, boot, store, disk, request, response, history, pc, frame, cmpVars, asmVars>>

L159_successes ==
    /\ reader.pc = "L159_successes"
    /\ request' = [op |-> "get_stats", q_id |-> reader.q_id]
    /\ response' = [status |-> 200,
                    body |-> [attempts |-> reader.attempts,
                              successes |-> ReaderRecord.successes,
                              average_time_ms |-> reader.avg]]
    /\ reader' = [NoReader EXCEPT !.reads = reader.reads]
    /\ UNCHANGED <<questions, boot, store, disk, history, pc, frame, cmpVars, asmVars>>

\* get_leaderboard(top) on another thread
L162(top) ==
    /\ reader.pc = "idle"
    /\ reader.reads < MaxReads
    /\ request' = [op |-> "get_leaderboard", top |-> top]
    /\ response' = [status |-> 200, body |-> GetLeaderboard(store, top)]
    /\ reader' = [reader EXCEPT !.reads = @ + 1]
    /\ UNCHANGED <<questions, boot, store, disk, history, pc, frame, cmpVars, asmVars>>

ConcIds == RecordIds

NextConc ==
    \/ \E t \in Threads, q_id \in ConcIds, correct \in BOOLEAN, time_ms \in ConcTimes :
          call_update_stats(t, q_id, correct, time_ms)
    \/ \E t \in Threads : L145(t)
    \/ \E t \in Threads : L146_load(t)
    \/ \E t \in Threads : L146_store(t)
    \/ \E t \in Threads : L148_load(t)
    \/ \E t \in Threads : L148_store(t)
    \/ \E t \in Threads : L149_load(t)
    \/ \E t \in Threads : L149_store(t)
    \/ \E t \in Threads : L151(t)
    \/ \E t \in Threads : L153_sort(t)
    \/ \E t \in Threads : L153_store(t)
    \/ \E t \in Threads : L154(t)
    \/ \E q_id \in ConcIds : L157(q_id)
    \/ L158
    \/ L159_attempts
    \/ L159_successes
    \/ \E top \in Tops : L162(top)

SpecConc == Init /\ [][NextConc]_vars


(***************************************************************************)
(* Properties of concurrent requests (specification SpecConc).             *)
(***************************************************************************)
CountIn(lb, e) == Cardinality({i \in DOMAIN lb : lb[i] = e})

EntryOf(c) == Entry(c.user, c.q_id, c.correct, c.time_ms)

\* C2: once all concurrent record calls have returned, every question's
\* attempts has grown by the number of calls made for it and its successes by
\* the number of correct ones, and, below 100 entries in total, the
\* leaderboard holds an entry for every call: the calls behave as if made one
\* at a time.
C2_RecordCallsSerialized ==
    pc = Idle =>
        /\ \A q \in ConcIds :
              /\ StatsOf(store, q).attempts = StatsOf(boot, q).attempts + NumCalls(q)
              /\ StatsOf(store, q).successes = StatsOf(boot, q).successes + NumCorrect(q)
              /\ StatsOf(store, q).total_time_ms = StatsOf(boot, q).total_time_ms + SumTime(q)
        /\ (Len(boot.leaderboard) + BagCardinality(history) < 100) =>
              \A c \in BagToSet(history) :
                  CountIn(store.leaderboard, EntryOf(c))
                     = CountIn(boot.leaderboard, EntryOf(c)) + CopiesIn(c, history)

\* the calls for q_id that have been entered so far, returned or not
Begun(q_id) ==
    LET inflight == {t \in Threads : pc[t] # "idle" /\ frame[t].q_id = q_id}
        CallOf(t) == Call(frame[t].q_id, frame[t].user, frame[t].correct, frame[t].time_ms)
        returned == [c \in CallsOf(q_id) |-> CopiesIn(c, history)]
    IN  returned (+) [c \in {CallOf(t) : t \in inflight} |->
                         Cardinality({t \in inflight : CallOf(t) = c})]

\* a Stats value that is the record of q_id after some of the begun calls,
\* each applied completely
IsSnapshot(stats, q_id) ==
    \E S \in SubBag(Begun(q_id)) :
        LET dom == BagToSet(S)
            n == SumOver(dom, [c \in dom |-> CopiesIn(c, S)])
            ok == SumOver(dom, [c \in dom |-> IF c.correct THEN CopiesIn(c, S) ELSE 0])
            time == SumOver(dom, [c \in dom |-> CopiesIn(c, S) * c.time_ms])
            b == StatsOf(boot, q_id)
        IN  /\ stats.attempts = b.attempts + n
            /\ stats.successes = b.successes + ok
            /\ stats.average_time_ms =
                  Average([attempts |-> b.attempts + n, successes |-> b.successes + ok,
                           total_time_ms |-> b.total_time_ms + time])

IsRanked(lb) ==
    \A i \in 1..(Len(lb) - 1) :
        /\ lb[i + 1].correct => lb[i].correct
        /\ (lb[i].correct = lb[i + 1].correct) => lb[i].time_ms <= lb[i + 1].time_ms

\* C3: what a reader gets while record calls run is never torn: get_stats
\* returns the counters as they are after some of the calls, each applied as
\* a whole, and get_leaderboard returns a sorted list of at most 100 entries.
C3_NoTornRead ==
    /\ request.op = "get_stats" => IsSnapshot(response.body, request.q_id)
    /\ request.op = "get_leaderboard" =>
          (Len(response.body) <= 100 /\ IsRanked(response.body))


(***************************************************************************)
(* Further properties of the routes (specification SpecApi).               *)
(***************************************************************************)
IsPythonSubmit ==
    /\ request.op = "submit"
    /\ request.language = "python"
    /\ request.q_id \in DOMAIN questions

TimeoutError == <<"t", "i", "m", "e", "o", "u", "t">>

IsSentinelRun(o) == o.kind = "done" /\ StartsWith(o.stdout, Sentinel)

\* C11: when the candidate's run on a test case exceeds the timeout, the
\* verdict has for that test case a TestResult with passed false, no actual
\* output and error "timeout"; every test case was still run, and the results
\* of the runs that printed an ordinary output carry that output.
C11_TimeoutContained ==
    IsPythonSubmit =>
        \A i \in DOMAIN request.runs :
            request.runs[i].kind = "timeout" =>
                /\ response.status = 200
                /\ LET rs == response.body.results
                   IN  /\ DOMAIN rs = DOMAIN request.runs
                       /\ ~rs[i].passed
                       /\ rs[i].actual_output = None
                       /\ rs[i].error = TimeoutError
                       /\ \A j \in DOMAIN rs \ {i} :
                             (request.runs[j].kind = "done" /\ ~IsSentinelRun(request.runs[j]))
                                => rs[j].actual_output = request.runs[j].stdout
                /\ response.ran = [k \in DOMAIN request.runs |-> k]

\* C12: when the standard output of a run begins with "__ERROR__:", the
\* TestResult of that test case is non-passing, has no actual output and has
\* the whole output as its error, and passed_count does not count it.
C12_SentinelIsFault ==
    IsPythonSubmit =>
        \A i \in DOMAIN request.runs :
            IsSentinelRun(request.runs[i]) =>
                /\ response.status = 200
                /\ LET rs == response.body.results
                   IN  /\ DOMAIN rs = DOMAIN request.runs
                       /\ ~rs[i].passed
                       /\ rs[i].actual_output = None
                       /\ rs[i].error = request.runs[i].stdout
                       /\ response.body.passed_count
                             <= Cardinality({j \in DOMAIN rs : ~IsSentinelRun(request.runs[j])})

C13_Errors ==
    request.op = "submit" =>
        /\ request.q_id \notin DOMAIN questions => response.status = 404
        /\ (request.q_id \in DOMAIN questions /\ request.language \notin {"output", "python"})
              => response.status = 400
        /\ response.status \in {400, 404} => (response.ran = << >> /\ response.body = None)

C13_Step ==
    (request'.op = "submit" /\ response'.status \in {400, 404}) =>
        (store' = store /\ disk' = disk /\ history' = history)

\* C13: a submit for an unknown question id fails with 404 and a submit in a
\* mode other than output or python fails with 400; such a request runs no
\* candidate code, produces no result and leaves the stats, the leaderboard
\* and the store file as they were.
C13_HardErrorsChangeNothing == []C13_Errors /\ [][C13_Step]_vars

\* an unsupported mode on the known question q3, refused after an earlier
\* submission was recorded
C13_Witness ==
    /\ request.op = "submit"
    /\ request.q_id = "q3"
    /\ request.q_id \in DOMAIN questions
    /\ request.language = "java"
    /\ response.status = 400
    /\ BagCardinality(history) > 0

\* C14: every submit for a known question in a supported mode makes exactly
\* one record call, with the question id and user of the submission and the
\* correct flag and elapsed time of the verdict it returns, and (below
\* capacity) the leaderboard gains the entry with these four values.
C14_RecordStep ==
    (/\ request'.op = "submit"
     /\ request'.q_id \in DOMAIN questions
     /\ request'.language \in {"output", "python"}) =>
        /\ response'.status = 200
        /\ LET c == Call(request'.q_id, request'.user,
                         response'.body.correct, response'.body.time_ms)
           IN  /\ history' = history (+) SetToBag({c})
               /\ Len(store.leaderboard) < 100 =>
                     CountIn(store'.leaderboard, EntryOf(c))
                        = CountIn(store.leaderboard, EntryOf(c)) + 1

C14_RecordFollowsEvaluation == [][C14_RecordStep]_vars

\* C17: in a source-code evaluation the candidate is run once for each test
\* case, in the question's order, one run after the other and none twice.
C17_OneRunPerTestCase ==
    IsPythonSubmit =>
        response.ran = [k \in DOMAIN questions[request.q_id].test_cases |-> k]

NoTests(q_id) == q_id \in DOMAIN questions /\ Len(questions[q_id].test_cases) = 0

C20_Verdict ==
    (IsEvaluated /\ NoTests(request.q_id)) =>
        /\ response.status = 200
        /\ response.body.passed_count = 0
        /\ response.body.total = 0
        /\ response.body.results = << >>
        /\ response.body.correct

C20_Step ==
    (/\ request'.op = "submit"
     /\ request'.language \in {"output", "python"}
     /\ NoTests(request'.q_id)) =>
        /\ StatsOf(store', request'.q_id).attempts = StatsOf(store, request'.q_id).attempts + 1
        /\ StatsOf(store', request'.q_id).successes = StatsOf(store, request'.q_id).successes + 1

\* C20: for a question without test cases a submission in output or python
\* mode gets passed_count 0, total 0 and correct true whatever the answer,
\* and the record call that follows counts it as a success.
C20_EmptyQuestionIsSuccess == []C20_Verdict /\ [][C20_Step]_vars

\* two submissions to the empty question q3, the last in python mode, both
\* counted as successes
C20_Witness ==
    /\ request.op = "submit"
    /\ request.language = "python"
    /\ NoTests(request.q_id)
    /\ response.status = 200
    /\ response.body.correct
    /\ StatsOf(store, request.q_id).successes = 2
    /\ StatsOf(store, request.q_id).attempts = 2


(***************************************************************************)
(* Further properties of the store (specification Spec).                   *)
(***************************************************************************)
C15_Step ==
    request'.op = "get_stats" =>
        /\ store' = store
        /\ disk' = disk
        /\ history' = history
        /\ DOMAIN store'.stats = DOMAIN store.stats
        /\ response'.body = GetStats(store', request'.q_id)
        /\ (request.op = "get_stats" /\ request.q_id = request'.q_id)
              => response' = response

C15_Answer ==
    request.op = "get_stats" => response.body = GetStats(store, request.q_id)

\* C15: get_stats changes neither the stats, the leaderboard nor the store
\* file and makes no record call; asked for a question nobody submitted to it
\* creates no stats record; its answer is determined by the store, so two
\* consecutive calls for the same question return the same values.
C15_GetStatsReadOnly == []C15_Answer /\ [][C15_Step]_vars

\* stats asked for an id without a record, after some submission was recorded
C15_Witness ==
    /\ request.op = "get_stats"
    /\ request.q_id \notin DOMAIN store.stats
    /\ response.body.attempts = 0
    /\ BagCardinality(history) > 0

\* C16: get_stats reports the question's attempts and successes; its average
\* is total time over attempts when attempts > 0 (num/den = total/attempts,
\* den never 0), and attempts 0, successes 0, average 0 when there is no
\* attempt.
C16_AverageDefined ==
    request.op = "get_stats" =>
        LET s == StatsOf(store, request.q_id)
            b == response.body
        IN  /\ b.attempts = s.attempts
            /\ b.successes = s.successes
            /\ b.average_time_ms.den # 0
            /\ s.attempts > 0 =>
                  b.average_time_ms.num * s.attempts = s.total_time_ms * b.average_time_ms.den
            /\ s.attempts = 0 =>
                  (b.attempts = 0 /\ b.successes = 0 /\ b.average_time_ms.num = 0)

\* an average that is not a whole number: two attempts taking 1 ms and 2 ms
C16_Witness ==
    /\ request.op = "get_stats"
    /\ response.body.attempts = 2
    /\ response.body.average_time_ms = [num |-> 3, den |-> 2]

\* a ranks strictly better than b: correct before incorrect, then faster first
Better(a, b) ==
    \/ a.correct /\ ~b.correct
    \/ a.correct = b.correct /\ a.time_ms < b.time_ms

Min(a, b) == IF a < b THEN a ELSE b

C19_Length == Len(store.leaderboard) = Min(100, TotalAttempts(store))

\* new is the board old plus the entry e minus the entry d
IsReplacement(new, old, e, d) ==
    \A x \in {old[i] : i \in DOMAIN old} \cup {e} :
        CountIn(new, x) + (IF x = d THEN 1 ELSE 0) = CountIn(old, x) + (IF x = e THEN 1 ELSE 0)

C19_Step ==
    request'.op = "update_stats" =>
        LET e == Entry(request'.user, request'.q_id, request'.correct, request'.time_ms)
            old == store.leaderboard
            new == store'.leaderboard
        IN  IF Len(old) < 100
            THEN /\ Len(new) = Len(old) + 1
                 /\ \A x \in {old[i] : i \in DOMAIN old} \cup {e} :
                       CountIn(new, x) = CountIn(old, x) + (IF x = e THEN 1 ELSE 0)
            ELSE /\ Len(new) = 100
                 /\ \E d \in {old[i] : i \in DOMAIN old} \cup {e} :
                       /\ IsReplacement(new, old, e, d)
                       /\ \A i \in DOMAIN new : ~Better(d, new[i])
                       /\ d.correct => \A i \in DOMAIN new : new[i].correct

\* C19: starting from an empty store the leaderboard holds min(100, total
\* attempts) entries; a record call below capacity adds its entry and drops
\* none; a record call at capacity drops exactly one entry, which ranks no
\* better than any entry kept, and never a correct one while an incorrect one
\* is kept.
C19_TruncationDropsWorst == []C19_Length /\ [][C19_Step]_vars

\* a correct entry recorded on a full board that still holds incorrect ones
C19_Witness ==
    /\ request.op = "update_stats"
    /\ request.correct
    /\ TotalAttempts(store) = 101
    /\ Len(store.leaderboard) = 100
    /\ CountIn(store.leaderboard,
               Entry(request.user, request.q_id, TRUE, request.time_ms)) > 0
    /\ \E i \in DOMAIN store.leaderboard : ~store.leaderboard[i].correct


(***************************************************************************)
(* Property of the assembled program (specification SpecAsm).              *)
(***************************************************************************)
\* C18: in the program assembled for the child interpreter the candidate's
\* source is only the content of the literal assigned to source_code: the
\* literal opened before the source ends at the three quotes the template
\* puts after it, whatever the source holds (quotes and backslashes
\* included).
C18_SourceIsOpaqueData ==
    request.op = "assemble" =>
        LiteralEnd(full, Len(Opening) + 1) = Len(Opening) + Len(source_code) + 1

====
